---- MODULE Spec2Model ----
(***************************************************************************)
(* The query-parsing pipeline of tommy-backend: ParserRules (dates,        *)
(* accommodation groups, age categories), the fallback to ParserAI, the    *)
(* validation and post-pass of CatalogSearch._parse_user_query, and the    *)
(* merge of the request's parse override in CatalogSearch.get.             *)
(*                                                                         *)
(* Texts are sequences of atoms.  An atom is a maximal run of word         *)
(* characters that is all digits or all letters, or one punctuation        *)
(* character, together with the number of spaces in front of it.  The      *)
(* regular expressions of the source only look at \d+, \w+, \s and literal *)
(* separators, so on such texts they are decided atom by atom.             *)
(***************************************************************************)
EXTENDS Integers, Sequences, FiniteSets, TLC

(***************************************************************************)
(* Bounds of the model.                                                    *)
(***************************************************************************)
MaxPhrases == 2
\* the longest list of results of the availability search
MaxResults == 3
\* how often time passes on the entries of the store
MaxPasses == 2

(***************************************************************************)
(* Calendar: dates are <<year, month, day>>; the source holds them as      *)
(* zero-padded yyyy-mm-dd strings, whose string order is the order below.  *)
(***************************************************************************)
None == <<>>

DateLT(a, b) ==
    \/ a[1] < b[1]
    \/ a[1] = b[1] /\ a[2] < b[2]
    \/ a[1] = b[1] /\ a[2] = b[2] /\ a[3] < b[3]

DateLE(a, b) == a = b \/ DateLT(a, b)

IsLeap(y) == (y % 4 = 0 /\ y % 100 # 0) \/ y % 400 = 0

DaysInMonth(y, m) ==
    IF m = 2 THEN (IF IsLeap(y) THEN 29 ELSE 28)
    ELSE IF m \in {4, 6, 9, 11} THEN 30 ELSE 31

\* datetime.strptime(s, "%Y-%m-%d") succeeds exactly on real calendar dates;
\* on anything else it raises ValueError.
ValidDate(dt) ==
    /\ dt[1] \in 1..9999
    /\ dt[2] \in 1..12
    /\ dt[3] \in 1..DaysInMonth(dt[1], dt[2])

NextDay(dt) ==
    IF dt[3] < DaysInMonth(dt[1], dt[2]) THEN <<dt[1], dt[2], dt[3] + 1>>
    ELSE IF dt[2] < 12 THEN <<dt[1], dt[2] + 1, 1>>
    ELSE <<dt[1] + 1, 1, 1>>

RECURSIVE AddDays(_, _)
AddDays(dt, n) == IF n <= 0 THEN dt ELSE AddDays(NextDay(dt), n - 1)

(***************************************************************************)
(* Atoms and the vocabulary of the modelled texts.                         *)
(***************************************************************************)
W(str) == [s |-> str, sp |-> 1]
G(str) == [s |-> str, sp |-> 0]

\* int(...) of a digit run
NumVal ==
    ("0" :> 0) @@ ("1" :> 1) @@ ("2" :> 2) @@ ("3" :> 3) @@ ("5" :> 5) @@
    ("07" :> 7) @@ ("12" :> 12) @@ ("14" :> 14) @@ ("29" :> 29) @@
    ("10" :> 10) @@ ("20" :> 20) @@ ("30" :> 30) @@ ("45" :> 45) @@ ("2025" :> 2025) @@ ("2026" :> 2026) @@
    ("2027" :> 2027)

IsDigits(str) == str \in DOMAIN NumVal

PunctChars == {"-", ".", "/"}

IsPunct(str) == str \in PunctChars

\* \w+ on a whole atom
IsWord(str) == ~IsPunct(str)

MONTHS ==
    ("jan" :> 1) @@ ("january" :> 1) @@ ("januari" :> 1) @@ ("januar" :> 1) @@
    ("feb" :> 2) @@ ("february" :> 2) @@ ("februari" :> 2) @@ ("februar" :> 2) @@
    ("mar" :> 3) @@ ("march" :> 3) @@ ("maart" :> 3) @@ ("mrt" :> 3) @@
    ("apr" :> 4) @@ ("april" :> 4) @@
    ("may" :> 5) @@ ("mai" :> 5) @@ ("mei" :> 5) @@
    ("jun" :> 6) @@ ("june" :> 6) @@ ("juni" :> 6) @@
    ("jul" :> 7) @@ ("july" :> 7) @@ ("juli" :> 7) @@
    ("aug" :> 8) @@ ("august" :> 8) @@ ("augustus" :> 8) @@
    ("sep" :> 9) @@ ("september" :> 9) @@
    ("oct" :> 10) @@ ("october" :> 10) @@ ("okt" :> 10) @@ ("oktober" :> 10) @@
    ("nov" :> 11) @@ ("november" :> 11) @@
    ("dec" :> 12) @@ ("december" :> 12) @@ ("dez" :> 12) @@ ("dezember" :> 12)

\* text.strip(): no spaces in front of the first atom
Strip(text) ==
    IF text = <<>> THEN text
    ELSE <<[text[1] EXCEPT !.sp = 0]>> \o Tail(text)

RECURSIVE TextLen(_)
\* len(text) in characters
TextLen(text) ==
    IF text = <<>> THEN 0
    ELSE Len(text[1].s) + text[1].sp + TextLen(Tail(text))

(***************************************************************************)
(* ParserDates.parse_date: the formats tried in order.  The result is the  *)
(* formatted date, never checked against the calendar.                     *)
(***************************************************************************)
IsD12(a) == IsDigits(a.s) /\ Len(a.s) <= 2
IsD4(a) == IsDigits(a.s) /\ Len(a.s) = 4
IsDateSep(a) == a.s \in {"-", "/", "."} /\ a.sp = 0

MatchIso(t) ==
    /\ Len(t) = 5
    /\ IsD4(t[1])
    /\ IsDateSep(t[2]) /\ IsD12(t[3]) /\ t[3].sp = 0
    /\ IsDateSep(t[4]) /\ IsD12(t[5]) /\ t[5].sp = 0

MatchNumeric(t) ==
    /\ Len(t) = 5
    /\ IsD12(t[1])
    /\ IsDateSep(t[2]) /\ IsD12(t[3]) /\ t[3].sp = 0
    /\ IsDateSep(t[4]) /\ IsDigits(t[5].s) /\ Len(t[5].s) \in 2..4 /\ t[5].sp = 0

MatchDayMonth(t) ==
    /\ Len(t) \in 2..3
    /\ IsD12(t[1])
    /\ IsWord(t[2].s) /\ t[2].sp >= 1
    /\ Len(t) = 3 => IsD4(t[3]) /\ t[3].sp >= 1

\* ^(\w+)(?:\s+(\d{1,2}))?(?:\s+(\d{4}))?$
MatchMonthDay(t) ==
    /\ Len(t) \in 1..3
    /\ IsWord(t[1].s)
    /\ Len(t) = 2 => t[2].sp >= 1 /\ (IsD12(t[2]) \/ IsD4(t[2]))
    /\ Len(t) = 3 => t[2].sp >= 1 /\ IsD12(t[2]) /\ t[3].sp >= 1 /\ IsD4(t[3])

MatchDayOnly(t) == Len(t) = 1 /\ IsD12(t[1])

parse_date(text, context_year, context_month, now) ==
    LET t == Strip(text)
        year == IF context_year # 0 THEN context_year ELSE now[1]
    IN  IF MatchIso(t)
          THEN <<NumVal[t[1].s], NumVal[t[3].s], NumVal[t[5].s]>>
        ELSE IF MatchNumeric(t)
          THEN LET y == NumVal[t[5].s]
               IN  <<IF y < 100 THEN y + 2000 ELSE y, NumVal[t[3].s], NumVal[t[1].s]>>
        ELSE IF MatchDayMonth(t) /\ t[2].s \in DOMAIN MONTHS
          THEN <<IF Len(t) = 3 THEN NumVal[t[3].s] ELSE year,
                 MONTHS[t[2].s], NumVal[t[1].s]>>
        ELSE IF MatchMonthDay(t) /\ t[1].s \in DOMAIN MONTHS
          THEN <<IF Len(t) >= 2 /\ IsD4(t[Len(t)]) THEN NumVal[t[Len(t)].s] ELSE year,
                 MONTHS[t[1].s],
                 IF Len(t) >= 2 /\ IsD12(t[2]) THEN NumVal[t[2].s] ELSE 1>>
        ELSE IF MatchDayOnly(t)
          THEN <<year, IF context_month # 0 THEN context_month ELSE now[2],
                 NumVal[t[1].s]>>
        ELSE None

(***************************************************************************)
(* ParserDates.parse: range, then date+duration, then a single date.       *)
(***************************************************************************)
\* the separators of RANGE_PATTERN that are one atom
RangeSeps == {"tot", "to", "through", "thru", "until", "till", "bis", "-"}

\* (\d+(?:\s+\w+)*) at atom i with k words, then a separator, then \d+
RangeStartOk(t, i, k) ==
    /\ i + k + 2 <= Len(t)
    /\ IsDigits(t[i].s)
    /\ \A j \in 1..k : IsWord(t[i + j].s) /\ t[i + j].sp >= 1
    /\ t[i + k + 1].s \in RangeSeps
    /\ IsDigits(t[i + k + 2].s)

RangeStarts(t) == {i \in 1..Len(t) : \E k \in 0..Len(t) : RangeStartOk(t, i, k)}

Min(S) == CHOOSE x \in S : \A y \in S : x <= y
Max(S) == CHOOSE x \in S : \A y \in S : x >= y

\* re.search(RANGE_PATTERN, text): leftmost start, greedy groups.
\* [from, mid, to0, to]: start_text = t[from..mid], end_text = t[to0..to]
RANGE_PATTERN(t) ==
    IF RangeStarts(t) = {} THEN [from |-> 0, mid |-> 0, to0 |-> 0, to |-> 0]
    ELSE LET i == Min(RangeStarts(t))
             k == Max({kk \in 0..Len(t) : RangeStartOk(t, i, kk)})
             e0 == i + k + 2
             e1 == IF e0 + 1 <= Len(t) /\ IsWord(t[e0 + 1].s) /\ t[e0 + 1].sp >= 1
                   THEN e0 + 1 ELSE e0
             e2 == IF e1 + 1 <= Len(t) /\ IsD4(t[e1 + 1]) /\ t[e1 + 1].sp >= 1
                   THEN e1 + 1 ELSE e1
         IN  [from |-> i, mid |-> i + k, to0 |-> e0, to |-> e2]

\* text[:m.start()] + rest + text[m.end():], then strip(); rest is what is
\* left of an atom the match ended in
RemoveMatch(t, from, to, rest) ==
    LET left == SubSeq(t, 1, from - 1)
        tail == (IF rest = "" THEN <<>> ELSE <<G(rest)>>) \o SubSeq(t, to + 1, Len(t))
        right == IF tail = <<>> THEN tail
                 ELSE <<[tail[1] EXCEPT !.sp = tail[1].sp + t[from].sp]>> \o Tail(tail)
    IN  Strip(left \o right)

\* the units of DURATION_PATTERN in the order of the alternation
Units == <<"week", "weeks", "wk", "wks", "day", "days", "d">>

UnitSet == {Units[i] : i \in DOMAIN Units}

\* the first alternative of (week|weeks|wk|wks|day|days|d) that is a prefix
\* of a word of the vocabulary, and what the word has after it
UnitHead ==
    ("week" :> "week") @@ ("weeks" :> "week") @@ ("wk" :> "wk") @@ ("wks" :> "wk") @@
    ("day" :> "day") @@ ("days" :> "day") @@ ("d" :> "d") @@
    ("dec" :> "d") @@ ("december" :> "d") @@ ("dez" :> "d") @@ ("dezember" :> "d")

UnitRest ==
    ("week" :> "") @@ ("weeks" :> "s") @@ ("wk" :> "") @@ ("wks" :> "s") @@
    ("day" :> "") @@ ("days" :> "s") @@ ("d" :> "") @@
    ("dec" :> "ec") @@ ("december" :> "ecember") @@ ("dez" :> "ez") @@
    ("dezember" :> "ezember")

\* (\d+\s+\w+)\s+(\d+\s*(?:week|...|d)) at atom i
DateDurationAt(t, i) ==
    /\ i + 3 <= Len(t)
    /\ IsDigits(t[i].s)
    /\ IsWord(t[i + 1].s) /\ t[i + 1].sp >= 1
    /\ IsDigits(t[i + 2].s) /\ t[i + 2].sp >= 1
    /\ t[i + 3].s \in DOMAIN UnitHead

\* (\d+\s*(?:week|...|d))\s+(\d+\s+\w+) at atom i
DurationDateAt(t, i) ==
    /\ i + 3 <= Len(t)
    /\ IsDigits(t[i].s)
    /\ t[i + 1].s \in UnitSet
    /\ IsDigits(t[i + 2].s) /\ t[i + 2].sp >= 1
    /\ IsWord(t[i + 3].s) /\ t[i + 3].sp >= 1

DurationStarts(t) ==
    {i \in 1..Len(t) : DateDurationAt(t, i) \/ DurationDateAt(t, i)}

parse_duration_days(amount, unit) ==
    IF unit \in {"week", "wk"} THEN amount * 7 ELSE amount

\* the outcome of ParserDates.parse: it raised, or (dates, text); no dates
\* (None) is the pair of two Nones
NoDates == [start |-> None, end |-> None]
Raised(text) == [raised |-> TRUE, dates |-> NoDates, text |-> text]
Returned(dates, text) == [raised |-> FALSE, dates |-> dates, text |-> text]

\* the single date that leaves the text as it came
SingleDate_KeepText(t, now) ==
    LET single_date == parse_date(t, 0, 0, now)
    IN  IF single_date # None
        THEN Returned([start |-> single_date, end |-> single_date], t)
        ELSE Returned(NoDates, t)

\* lines 213-220: the whole text as one date
SingleDate(t, now) ==
    LET single_date == parse_date(t, 0, 0, now)
    IN  IF single_date # None
        THEN Returned([start |-> single_date, end |-> single_date], <<>>)
        ELSE Returned(NoDates, t)

\* lines 198-211: roll a past start one year on, add the duration
DurationResult(t, now, i, rest, start_date, duration_days) ==
    IF start_date = None \/ duration_days = 0 THEN SingleDate(t, now)
    ELSE IF ~ValidDate(start_date) THEN Raised(t)
    ELSE LET start_dt == IF DateLE(start_date, now)
                         THEN <<start_date[1] + 1, start_date[2], start_date[3]>>
                         ELSE start_date
         IN  IF ~ValidDate(start_dt) THEN Raised(t)
             ELSE Returned([start |-> start_dt,
                            end |-> AddDays(start_dt, duration_days - 1)],
                           RemoveMatch(t, i, i + 3, rest))

\* lines 185-196: date + duration in either order
DateDuration(t, now) ==
    IF DurationStarts(t) = {} THEN SingleDate(t, now)
    ELSE LET i == Min(DurationStarts(t))
         IN  IF DateDurationAt(t, i)
             THEN DurationResult(t, now, i, UnitRest[t[i + 3].s],
                      parse_date(SubSeq(t, i, i + 1), 0, 0, now),
                      parse_duration_days(NumVal[t[i + 2].s], UnitHead[t[i + 3].s]))
             ELSE DurationResult(t, now, i, "",
                      parse_date(SubSeq(t, i + 2, i + 3), 0, 0, now),
                      parse_duration_days(NumVal[t[i].s], UnitHead[t[i + 1].s]))

\* re.search(r'\b\d{4}\b', end_text)
HasExplicitYear(end_text) == \E j \in 1..Len(end_text) : IsD4(end_text[j])

\* lines 176-183: the start fragment in the context of the end fragment
RangeFinish(t, now, m, start_text, end_date, context_year, context_month) ==
    LET start_date == parse_date(start_text, context_year, context_month, now)
    IN  IF start_date = None THEN DateDuration(t, now)
        ELSE Returned([start |-> start_date, end |-> end_date],
                      RemoveMatch(t, m.from, m.to, ""))

\* the rolled year without parsing the end fragment again
RangeContext_EndNotReparsed(t, now, m, start_text, end_text, end_date) ==
    IF HasExplicitYear(end_text)
    THEN RangeFinish(t, now, m, start_text, end_date, end_date[1], end_date[2])
    ELSE LET temp_start == parse_date(start_text, now[1], end_date[2], now)
         IN  IF temp_start = None
               THEN RangeFinish(t, now, m, start_text, end_date, now[1], end_date[2])
             ELSE IF ~ValidDate(temp_start) THEN Raised(t)
             ELSE IF DateLE(temp_start, now)
               THEN RangeFinish(t, now, m, start_text, end_date,
                                now[1] + 1, end_date[2])
             ELSE RangeFinish(t, now, m, start_text, end_date, now[1], end_date[2])

\* lines 160-174: the year of the context; strptime on the tentative start
RangeContext(t, now, m, start_text, end_text, end_date) ==
    IF HasExplicitYear(end_text)
    THEN RangeFinish(t, now, m, start_text, end_date, end_date[1], end_date[2])
    ELSE LET temp_start == parse_date(start_text, now[1], end_date[2], now)
         IN  IF temp_start = None
               THEN RangeFinish(t, now, m, start_text, end_date, now[1], end_date[2])
             ELSE IF ~ValidDate(temp_start) THEN Raised(t)
             ELSE IF DateLE(temp_start, now)
               THEN RangeFinish(t, now, m, start_text,
                                parse_date(end_text, now[1] + 1, 0, now),
                                now[1] + 1, end_date[2])
             ELSE RangeFinish(t, now, m, start_text, end_date, now[1], end_date[2])

\* lines 153-158: the end fragment is parsed first
RangeMatched(t, now, m, start_text, end_text) ==
    LET end_date == parse_date(end_text, now[1], 0, now)
    IN  IF end_date = None THEN DateDuration(t, now)
        ELSE RangeContext(t, now, m, start_text, end_text, end_date)

\* ParserDates.parse(text); now is the date of datetime.now(), taken to be
\* later than midnight
ParserDates_parse(t, now) ==
    LET m == RANGE_PATTERN(t)
    IN  IF m.from = 0 THEN DateDuration(t, now)
        ELSE RangeMatched(t, now, m, SubSeq(t, m.from, m.mid), SubSeq(t, m.to0, m.to))

(***************************************************************************)
(* ParserAccommodationGroups.parse: the tags whose pattern matches, in the *)
(* order of PATTERNS; the text is returned as it came.  The words are the  *)
(* one-atom alternatives of each pattern.                                  *)
(***************************************************************************)
AccommodationTags == <<"kamperen", "huren", "accommodaties", "toeristenplaatsen">>

AccommodationWords ==
    ("kamperen" :> {"kamperen", "kampeerplek", "campsite", "campground", "camper",
                    "campen", "camping", "campingplatz", "zeltplatz"}) @@
    ("huren" :> {"huren", "huis", "vakantiehuis", "huuraccommodatie", "rent",
                 "rental", "cottage", "holidayhome", "mieten", "ferienwohnung",
                 "ferienhaus", "chalet", "bungalow", "glampingtent"}) @@
    ("accommodaties" :> {"accommodaties", "accommodatie", "verblijven",
                         "accommodation", "accommodations", "lodging", "lodgings",
                         "unterkunft", "bleibe"}) @@
    ("toeristenplaatsen" :> {"toeristenplaatsen", "toeristenplaats", "touristspot",
                             "touristspots", "touristenplatz"})

ParserAccommodationGroups_parse(t) ==
    [tags |-> SelectSeq(AccommodationTags,
                        LAMBDA g : \E j \in 1..Len(t) : t[j].s \in AccommodationWords[g]),
     text |-> t]

(***************************************************************************)
(* ParserAgeCategories.parse: per tag the sum of the counts of its         *)
(* "<1-2 digits> <word>" matches; the text is returned as it came.  The    *)
(* tags "16+", "18-15" and "25+" need a "+" or a glued "-", which are not  *)
(* in the vocabulary of the texts.                                         *)
(***************************************************************************)
AgeTags == <<"volwassenen", "baby", "16+", "18-15", "25+", "kinderen">>

AgeWords ==
    ("volwassenen" :> {"volwassen", "volwassene", "volwassenen", "adult", "adults",
                       "erwachsen", "erwachsene"}) @@
    ("baby" :> {"baby", "babys", "babies"}) @@
    ("16+" :> {}) @@ ("18-15" :> {}) @@ ("25+" :> {}) @@
    ("kinderen" :> {"kinder", "kinderen", "childre", "children", "child", "kid", "kids"})

AgeMatches(t, tag) ==
    {j \in 1..Len(t) - 1 :
        IsD12(t[j]) /\ t[j + 1].sp >= 1 /\ t[j + 1].s \in AgeWords[tag]}

\* the count of one match only: assignment where the source adds
SumCounts_LastOnly(t, S) ==
    IF S = {} THEN 0 ELSE NumVal[t[Min(S)].s]

RECURSIVE SumCounts(_, _)
SumCounts(t, S) ==
    IF S = {} THEN 0
    ELSE LET j == Max(S) IN NumVal[t[j].s] + SumCounts(t, S \ {j})

ParserAgeCategories_parse(t) ==
    [counts |-> [tag \in {AgeTags[i] : i \in {n \in DOMAIN AgeTags :
                                              AgeMatches(t, AgeTags[n]) # {}}}
                    |-> SumCounts(t, AgeMatches(t, tag))],
     text |-> t]

(***************************************************************************)
(* Filter objects: a function from some of the keys to tagged values.      *)
(***************************************************************************)
Keys == {"dates", "accommodation_groups", "amenities", "age_categories", "error"}

Null == [t |-> "null", v |-> 0]
DatesVal(start, end) == [t |-> "dates", v |-> [start |-> start, end |-> end]]
ListVal(items) == [t |-> "list", v |-> items]
MapVal(m) == [t |-> "map", v |-> m]
StrVal(str) == [t |-> "str", v |-> str]

\* list entries: an integer, or a string
IntItem(n) == [t |-> "int", v |-> n]
StrItem(str) == [t |-> "str", v |-> str]

Empty == [k \in {} |-> Null]

\* the dict without key k
Del(d, k) == [j \in DOMAIN d \ {k} |-> d[j]]

\* d[k] = val
Put(d, k, val) == [j \in DOMAIN d \cup {k} |-> IF j = k THEN val ELSE d[j]]

(***************************************************************************)
(* Catalog filters: per category the (id, label) pairs in the order of the *)
(* provider.  Of a label the rule stage only asks which canonical tags are *)
(* substrings of label.lower().                                            *)
(***************************************************************************)
LabelTags ==
    ("Huren" :> {"huren"}) @@ ("Kamperen" :> {"kamperen"}) @@
    ("Volwassenen" :> {"volwassenen"}) @@ ("Kinderen" :> {"kinderen"}) @@
    ("Zwembad" :> {}) @@
    ("Bungalow huren" :> {"huren"}) @@ ("Kinderen 4-12" :> {"kinderen"})

Entry(id, label) == [id |-> id, label |-> label]

\* catalog_filters.get(key, dict())
Get(catalog_filters, key) ==
    IF key \in DOMAIN catalog_filters THEN catalog_filters[key] ELSE <<>>

RECURSIVE Ids(_)
Ids(entries) ==
    IF entries = <<>> THEN <<>> ELSE <<IntItem(entries[1].id)>> \o Ids(Tail(entries))

RECURSIVE ResolveGroups(_, _)
\* lines 29-32: every (tag, label) pair with the tag in the label appends the id
ResolveGroups(tags, entries) ==
    IF tags = <<>> THEN <<>>
    ELSE Ids(SelectSeq(entries, LAMBDA e : tags[1] \in LabelTags[e.label]))
         \o ResolveGroups(Tail(tags), entries)

RECURSIVE ResolveAges(_, _, _, _)
\* lines 40-43: a tag with exactly one matching label sets that id's count
ResolveAges(tags, counts, entries, acc) ==
    IF tags = <<>> THEN acc
    ELSE LET tag == tags[1]
             matches == SelectSeq(entries, LAMBDA e : tag \in LabelTags[e.label])
         IN  ResolveAges(Tail(tags), counts, entries,
                 IF tag \in DOMAIN counts /\ Len(matches) = 1
                 THEN [id \in DOMAIN acc \cup {matches[1].id} |->
                          IF id = matches[1].id THEN counts[tag] ELSE acc[id]]
                 ELSE acc)

NoAges == [id \in {} |-> 0]

(***************************************************************************)
(* ParserRules.parse: dates, accommodation groups, age categories, each on *)
(* the text the one before returned.  [raised, parse, text].               *)
(***************************************************************************)
\* lines 22-23, 33-34, 45-46: only what is not empty becomes a key
WithDates(p, dates) ==
    IF dates # NoDates THEN Put(p, "dates", DatesVal(dates.start, dates.end)) ELSE p

WithGroups(p, accommodation_groups) ==
    IF accommodation_groups # <<>>
    THEN Put(p, "accommodation_groups", ListVal(accommodation_groups)) ELSE p

WithAges(p, age_categories) ==
    IF DOMAIN age_categories # {} THEN Put(p, "age_categories", MapVal(age_categories))
    ELSE p

\* lines 25-48, on what the date extractor returned
RulesAfterDates(d, catalog_filters) ==
    IF d.raised THEN [raised |-> TRUE, parse |-> Empty, text |-> d.text]
    ELSE [raised |-> FALSE,
          parse |->
            WithAges(
              WithGroups(
                WithDates(Empty, d.dates),
                ResolveGroups(ParserAccommodationGroups_parse(d.text).tags,
                              Get(catalog_filters, "accommodation_groups"))),
              ResolveAges(AgeTags,
                  ParserAgeCategories_parse(
                      ParserAccommodationGroups_parse(d.text).text).counts,
                  Get(catalog_filters, "age_categories"), NoAges)),
          text |-> Strip(ParserAgeCategories_parse(
                             ParserAccommodationGroups_parse(d.text).text).text)]

ParserRules_parse(user_query, catalog_filters, now) ==
    RulesAfterDates(ParserDates_parse(user_query, now), catalog_filters)

(***************************************************************************)
(* The normalized queries of the model: up to MaxPhrases phrases of the    *)
(* lexicon, single-spaced, as CatalogSearch._sanitize_user_query leaves    *)
(* them.                                                                   *)
(***************************************************************************)
Lexicon ==
    { <<W("3"), W("-"), W("12"), W("jan")>>,
      <<W("14"), W("-"), W("12"), W("jul")>>,
      <<W("12"), W("jul")>>,
      <<W("1"), W("feb")>>,
      <<W("30"), W("feb"), W("3"), W("days")>>,
      <<W("29"), W("feb"), W("2"), W("days")>>,
      <<W("12"), W("jul"), W("3"), W("days")>>,
      <<W("2025"), G("-"), G("07"), G("-"), G("12")>>,
      <<W("2"), W("adults")>>,
      <<W("huis")>>,
      <<W("huis"), W("2"), W("adults")>>,
      <<W("zwembad")>>,
      <<W("."), G("/"), G("."), G("/"), G(".")>> }

RECURSIVE Phrases(_)
Phrases(n) ==
    IF n = 0 THEN {<<>>}
    ELSE Phrases(n - 1) \cup {p \o q : p \in Phrases(n - 1), q \in Lexicon}

Texts == {Strip(t) : t \in Phrases(MaxPhrases)}

(***************************************************************************)
(* CatalogSearch._parse_user_query, step by step.                          *)
(***************************************************************************)
\* the length below which the residual text is not sent to the model
MinResidualLen == 5

\* REGEX_ALPHANUMERIC.search(text) is not None
REGEX_ALPHANUMERIC(text) ==
    \E j \in 1..Len(text) : ~IsPunct(text[j].s)

\* the early return without its test of the amenities facet
EarlyReturnCond_AnyCatalog(catalog_filters, rules) ==
    Cardinality(DOMAIN rules) = 3

\* line 250: not catalog_filters.get("amenities") and len(parse) == 3
EarlyReturnCond(catalog_filters, rules) ==
    /\ Get(catalog_filters, "amenities") = <<>>
    /\ Cardinality(DOMAIN rules) = 3

\* the condition without its test for an alphanumeric character
FallbackGuard_NoAlnum(text) ==
    /\ text # <<>>
    /\ TextLen(text) >= MinResidualLen

\* line 253: the condition under which ParserAI.parse is called
FallbackGuard(text) ==
    /\ text # <<>>
    /\ REGEX_ALPHANUMERIC(text)
    /\ TextLen(text) >= MinResidualLen

\* the merge as parse.update(parse_ai): the model's keys win
MergeAI_Update(rules, ai) ==
    [k \in DOMAIN rules \cup DOMAIN ai |-> IF k \in DOMAIN ai THEN ai[k] ELSE rules[k]]

\* lines 256-258: adopt the model's keys that the object does not have
MergeAI(rules, ai) ==
    [k \in DOMAIN rules \cup DOMAIN ai |-> IF k \in DOMAIN rules THEN rules[k] ELSE ai[k]]

\* lines 260-271: [raised, parse].  After DATES_PAST has deleted the key,
\* the ordering check still reads the pair and deletes the key once more.
Validator(p, today) ==
    IF "dates" \notin DOMAIN p \/ p["dates"] = Null
    THEN [raised |-> FALSE, parse |-> p]
    ELSE LET dates == p["dates"].v
             past == DateLT(dates.start, today) \/ DateLT(dates.end, today)
             order == DateLE(dates.end, dates.start)
         IN  IF past /\ order
               THEN [raised |-> TRUE, parse |-> Del(Put(p, "error", StrVal("DATES_ORDER")), "dates")]
             ELSE IF past
               THEN [raised |-> FALSE, parse |-> Del(Put(p, "error", StrVal("DATES_PAST")), "dates")]
             ELSE IF order
               THEN [raised |-> FALSE, parse |-> Del(Put(p, "error", StrVal("DATES_ORDER")), "dates")]
             ELSE [raised |-> FALSE, parse |-> p]

\* int(x) if isinstance(x, str) and x.isdigit() else x
Coerce(item) ==
    IF item.t = "str" /\ item.v \in DOMAIN NumVal THEN IntItem(NumVal[item.v]) ELSE item

\* the post-pass without the deletion of the keys that are None
PostPass_KeepNone(p) ==
    [k \in DOMAIN p |->
        IF p[k].t = "list"
        THEN ListVal([n \in DOMAIN p[k].v |-> Coerce(p[k].v[n])])
        ELSE p[k]]

\* lines 273-278: drop the keys that are None, coerce the entries of lists
PostPass(p) ==
    [k \in {j \in DOMAIN p : p[j] # Null} |->
        IF p[k].t = "list"
        THEN ListVal([n \in DOMAIN p[k].v |-> Coerce(p[k].v[n])])
        ELSE p[k]]

(***************************************************************************)
(* CatalogSearch._sanitize_user_query on atoms: lower(), remove_accents,   *)
(* REGEX_INVALID_CHARS, REGEX_DOUBLE_SPACES, the stopwords and strip().    *)
(* The raw queries of the model hold no number word, range word, long      *)
(* month name or repeated character, which the other steps would rewrite.  *)
(***************************************************************************)
\* str.lower(), for the upper-case letters of the raw queries
LowerChar ==
    ("A" :> "a") @@ ("B" :> "b") @@ ("C" :> "c") @@ ("D" :> "d") @@ ("E" :> "e") @@
    ("F" :> "f") @@ ("G" :> "g") @@ ("H" :> "h") @@ ("I" :> "i") @@ ("J" :> "j") @@
    ("K" :> "k") @@ ("L" :> "l") @@ ("M" :> "m") @@ ("N" :> "n") @@ ("O" :> "o") @@
    ("P" :> "p") @@ ("Q" :> "q") @@ ("R" :> "r") @@ ("S" :> "s") @@ ("T" :> "t") @@
    ("U" :> "u") @@ ("V" :> "v") @@ ("W" :> "w") @@ ("X" :> "x") @@ ("Y" :> "y") @@
    ("Z" :> "z")

RECURSIVE Lower(_)
Lower(str) ==
    IF str = "" THEN ""
    ELSE LET c == SubSeq(str, 1, 1)
         IN  (IF c \in DOMAIN LowerChar THEN LowerChar[c] ELSE c)
             \o Lower(SubSeq(str, 2, Len(str)))

\* NFD and the combining marks dropped, for the accented letters of the model
AccentBase == ("é" :> "e") @@ ("ë" :> "e") @@ ("ü" :> "u")

RECURSIVE remove_accents(_)
remove_accents(str) ==
    IF str = "" THEN ""
    ELSE LET c == SubSeq(str, 1, 1)
         IN  (IF c \in DOMAIN AccentBase THEN AccentBase[c] ELSE c)
             \o remove_accents(SubSeq(str, 2, Len(str)))

\* [^a-z\d.\-/\s] among the punctuation of the raw queries
InvalidChars == {"!", "?", ","}

\* src/api/data/stopwords-nl.json, of which the model needs one word
StopWords == {"de"}

\* atom j of t is a whole word of t.split()
IsToken(t, j) ==
    /\ (j = 1 \/ t[j].sp >= 1)
    /\ (j = Len(t) \/ t[j + 1].sp >= 1)

RECURSIVE DropAtoms(_, _, _)
\* t without the atoms of set S (positions from j on); the spaces of a
\* dropped atom stay in front of the next one
DropAtoms(t, S, carry) ==
    IF t = <<>> THEN <<>>
    ELSE IF t[1] \in S THEN DropAtoms(Tail(t), S, carry + t[1].sp)
    ELSE <<[t[1] EXCEPT !.sp = t[1].sp + carry]>> \o DropAtoms(Tail(t), S, 0)

\* REGEX_DOUBLE_SPACES.sub(" ", ...) and " ".join(words)
SingleSpaced(t) == [j \in DOMAIN t |-> [t[j] EXCEPT !.sp = IF t[j].sp >= 1 THEN 1 ELSE 0]]

sanitize_user_query(raw) ==
    LET lowered == [j \in DOMAIN raw |->
                       [raw[j] EXCEPT !.s = remove_accents(Lower(raw[j].s))]]
        valid == DropAtoms(lowered, {lowered[j] : j \in {k \in DOMAIN lowered :
                                        lowered[k].s \in InvalidChars}}, 0)
        spaced == SingleSpaced(Strip(valid))
        words == DropAtoms(spaced,
                     {spaced[j] : j \in {k \in DOMAIN spaced :
                         IsToken(spaced, k) /\ spaced[k].s \in StopWords}}, 0)
    IN  Strip(SingleSpaced(words))

(***************************************************************************)
(* CatalogSearch.get, lines 322-335: the results take the fields of their  *)
(* accommodation and are sorted by the number of query words found in the  *)
(* name.  A result is [id, name]; name "" is a result without the key.     *)
(***************************************************************************)
\* characters without an ASCII base, which encode('ascii', 'ignore') drops
NonAscii == {"ø"}

RECURSIVE AsciiFold(_)
\* unicodedata.normalize('NFD', s).encode('ascii', 'ignore').decode('utf-8')
AsciiFold(str) ==
    IF str = "" THEN ""
    ELSE LET c == SubSeq(str, 1, 1)
         IN  (IF c \in DOMAIN AccentBase THEN AccentBase[c]
              ELSE IF c \in NonAscii THEN ""
              ELSE c)
             \o AsciiFold(SubSeq(str, 2, Len(str)))

\* word in name
Contains(name, word) ==
    \E i \in 0..(Len(name) - Len(word)) : SubSeq(name, i + 1, i + Len(word)) = word

RECURSIVE Split(_)
\* str.split(): the atoms glued to one another make one word
Split(t) ==
    IF t = <<>> THEN <<>>
    ELSE LET rest == Split(Tail(t))
         IN  IF Len(t) >= 2 /\ t[2].sp = 0
             THEN <<t[1].s \o Head(rest)>> \o Tail(rest)
             ELSE <<t[1].s>> \o rest

\* the sort key: one for every query word, repeated or not, that is in the
\* folded lower-case name
Score(r, query_words) ==
    Cardinality({i \in DOMAIN query_words :
                    Contains(AsciiFold(Lower(r.name)), query_words[i])})

\* result.update(accommodations[id]) for the ids of the table
UpdateResult(r, accommodations) ==
    IF r.id \in DOMAIN accommodations
    THEN [r EXCEPT !.name = accommodations[r.id]]
    ELSE r

\* the place of r among the sorted results: in front of the equal keys
InsertPlace_BeforeEqual(sorted, r, query_words) ==
    Cardinality({i \in DOMAIN sorted :
                    Score(sorted[i], query_words) > Score(r, query_words)})

\* the place of r among the sorted results: behind every result whose key
\* is not smaller, as list.sort keeps equal keys in their order, with
\* reverse=True too
InsertPlace(sorted, r, query_words) ==
    Cardinality({i \in DOMAIN sorted :
                    Score(sorted[i], query_words) >= Score(r, query_words)})

Insert(sorted, r, n) ==
    SubSeq(sorted, 1, n) \o <<r>> \o SubSeq(sorted, n + 1, Len(sorted))

RECURSIVE SortByScore(_, _)
\* results.sort(key=..., reverse=True)
SortByScore(rs, query_words) ==
    IF rs = <<>> THEN <<>>
    ELSE LET sorted == SortByScore(SubSeq(rs, 1, Len(rs) - 1), query_words)
             r == rs[Len(rs)]
         IN  Insert(sorted, r, InsertPlace(sorted, r, query_words))

(***************************************************************************)
(* CatalogSearch.get: the checks on the request and the parse override.    *)
(***************************************************************************)
MinQueryLen == 4
MaxQueryLen == 100

\* the lower limit off by one
validate_user_query_OffByOne(text) ==
    ~(TextLen(text) < MinQueryLen - 1 \/ TextLen(text) > MaxQueryLen)

\* _validate_user_query
validate_user_query(text) ==
    ~(TextLen(text) < MinQueryLen \/ TextLen(text) > MaxQueryLen)

\* _validate_user_parse: SCHEMA_USER_PARSE; unknown keys and nulls are refused
validate_user_parse(p) ==
    \A k \in DOMAIN p :
        \/ k = "dates" /\ p[k].t = "dates"
        \/ k \in {"accommodation_groups", "amenities"} /\ p[k].t = "list"
              /\ \A n \in DOMAIN p[k].v : p[k].v[n].t = "int"
        \/ k = "age_categories" /\ p[k].t = "map"

\* the merge as parse | user_parse: the override's keys win
MergeOverride_OverrideWins(pipeline, override) ==
    [k \in DOMAIN pipeline \cup DOMAIN override |->
        IF k \in DOMAIN override THEN override[k] ELSE pipeline[k]]

\* lines 306-310: the override loses every key the pipeline produced
MergeOverride(pipeline, override) ==
    [k \in DOMAIN pipeline \cup DOMAIN override |->
        IF k \in DOMAIN pipeline THEN pipeline[k] ELSE override[k]]

(***************************************************************************)
(* CatalogSearch.get: the availability search.                             *)
(***************************************************************************)
\* results = None
NoResults == [t |-> "none", v |-> <<>>]

\* a list of results
ResultList(items) == [t |-> "list", v |-> items]

\* bool(value) of a value of a filter object
Truthy(val) ==
    CASE val.t = "null" -> FALSE
      [] val.t = "dates" -> TRUE
      [] val.t = "list" -> val.v # <<>>
      [] val.t = "map" -> DOMAIN val.v # {}
      [] val.t = "str" -> val.v # ""

\* bool(p.get(k))
GetTruthy(p, k) == k \in DOMAIN p /\ Truthy(p[k])

\* line 314: not parse.get("error") and parse.get("dates")
SearchGuard(p) == ~GetTruthy(p, "error") /\ GetTruthy(p, "dates")

\* the test without age_categories
RequiredArgs_DatesOnly(p) == TRUE

\* line 221, negated: arrival_date, departure_date and age_categories are
\* all non-empty (the dates of a filter object are never empty strings)
RequiredArgs(p) == GetTruthy(p, "age_categories")

\* lines 224-230: the arguments given to TommyClient.get_availability
AvailabilityArgs(p) ==
    [arrival_date |-> p["dates"].v.start,
     departure_date |-> p["dates"].v.end,
     age_categories |->
        IF "age_categories" \in DOMAIN p THEN p["age_categories"].v ELSE <<>>,
     accommodation_groups |->
        IF GetTruthy(p, "accommodation_groups")
        THEN p["accommodation_groups"].v ELSE <<>>,
     amenities |-> IF "amenities" \in DOMAIN p THEN p["amenities"].v ELSE <<>>]

\* the q argument: a sanitized text as it is, or one that sanitizing
\* shortens, or one too short or too long as it comes
RawExtras ==
    { <<G("zee")>>,
      <<G("zee"), G("!")>>,
      <<G("de"), W("zee")>>,
      <<G("Huis"), G("!")>>,
      <<G("Café"), G("!")>>,
      <<G("abcdefghijklmnopqrstuvwxyz"), W("abcdefghijklmnopqrstuvwxyz"),
        W("abcdefghijklmnopqrstuvwxyz"), W("abcdefghijklmnopqrstuvwxyz")>> }

RawQueries == Texts \cup RawExtras

(***************************************************************************)
(* redis_cache around _parse_user_query (cache.py 230-264, Catalog.py 246): *)
(* the store maps a key to the stored value and its seconds to live.  A    *)
(* filter object is packed by msgpack and unpacked to an equal object, so  *)
(* the store holds the object itself.                                      *)
(***************************************************************************)
\* ex of the decorator of _parse_user_query
ParseTTL == 3600

\* the ex of a result that is falsy
EmptyTTL == 30

NoStore == [k \in {} |-> [value |-> Empty, ttl |-> 0]]

\* key_pattern.format(**all_args) for the one valid catalog id: the key is
\* the query
RedisKey(user_query) == user_query

\* RedisCache.get: None when the key is not there
RedisCache_get(st, key) ==
    IF key \in DOMAIN st THEN [found |-> TRUE, value |-> st[key].value]
    ELSE [found |-> FALSE, value |-> Empty]

\* if cached_data := RedisCache.get(redis_key): None and {} are falsy
CachedTruthy(cached) == cached.found /\ DOMAIN cached.value # {}

\* RedisCache.set(redis_key, result, ex=ex if result else 30)
RedisCache_set(st, key, result) ==
    [k \in DOMAIN st \cup {key} |->
        IF k = key
        THEN [value |-> result,
              ttl |-> IF DOMAIN result # {} THEN ParseTTL ELSE EmptyTTL]
        ELSE st[k]]

\* the entries that are alive dt seconds later
Expire(st, dt) ==
    [k \in {j \in DOMAIN st : st[j].ttl > dt} |-> [st[k] EXCEPT !.ttl = st[k].ttl - dt]]

\* Catalog.py, lines 260-280, on the assembled object
ParseValidated(v) ==
    IF v.raised THEN [raised |-> TRUE, value |-> Empty]
    ELSE [raised |-> FALSE, value |-> PostPass(v.parse)]

\* Catalog.py, lines 250-280, on what ParserRules.parse returned; answer is
\* what ParserAI.parse returns if it is called
ParseAfterRules(r, catalog_filters, now, answer) ==
    IF r.raised THEN [raised |-> TRUE, value |-> Empty]
    ELSE IF EarlyReturnCond(catalog_filters, r.parse)
      THEN [raised |-> FALSE, value |-> r.parse]
    ELSE IF FallbackGuard(r.text)
      THEN ParseValidated(Validator(MergeAI(r.parse, answer), now))
    ELSE ParseValidated(Validator(r.parse, now))

\* the wrapped function _parse_user_query as a whole: [raised, value]
ParseUserQuery(user_query, catalog_filters, now, answer) ==
    ParseAfterRules(ParserRules_parse(user_query, catalog_filters, now),
                    catalog_filters, now, answer)

\* ParserRules.parse before its extractors have run
NoExtract == [dates |-> NoDates, tags |-> <<>>, counts |-> NoAges]

(***************************************************************************)
(* Inputs of the model.                                                    *)
(***************************************************************************)
Todays == {<<2024, 3, 10>>, <<2025, 6, 15>>}

Groups == <<Entry(1, "Huren"), Entry(2, "Kamperen")>>
Ages == <<Entry(10, "Volwassenen"), Entry(11, "Kinderen")>>

Catalogs ==
    { ("accommodation_groups" :> Groups) @@ ("age_categories" :> Ages),
      ("accommodation_groups" :> Groups) @@ ("age_categories" :> Ages)
          @@ ("amenities" :> <<>>),
      ("accommodation_groups" :> Groups) @@ ("age_categories" :> Ages)
          @@ ("amenities" :> <<Entry(20, "Zwembad")>>) }

FutureRange == DatesVal(<<2026, 1, 3>>, <<2026, 1, 12>>)
FutureDay == DatesVal(<<2026, 5, 5>>, <<2026, 5, 5>>)
PastRange == DatesVal(<<2023, 1, 1>>, <<2023, 1, 5>>)
PastDay == DatesVal(<<2023, 1, 1>>, <<2023, 1, 1>>)

\* what the model may answer: json.loads of a SearchFilters document, or {}
AiOutputs ==
    { Empty,
      ("dates" :> Null) @@ ("accommodation_groups" :> Null)
          @@ ("amenities" :> Null) @@ ("age_categories" :> Null),
      ("dates" :> FutureRange) @@ ("accommodation_groups" :> ListVal(<<StrItem("2")>>))
          @@ ("amenities" :> Null) @@ ("age_categories" :> MapVal(10 :> 4)),
      ("dates" :> PastRange) @@ ("accommodation_groups" :> Null)
          @@ ("amenities" :> ListVal(<<StrItem("20")>>)) @@ ("age_categories" :> Null),
      ("dates" :> FutureDay) @@ ("accommodation_groups" :> ListVal(<<>>))
          @@ ("amenities" :> Null) @@ ("age_categories" :> Null),
      ("dates" :> PastDay) @@ ("accommodation_groups" :> ListVal(<<StrItem("huren")>>))
          @@ ("amenities" :> Null) @@ ("age_categories" :> Null),
      ("dates" :> Null) @@ ("accommodation_groups" :> ListVal(<<StrItem("huren")>>))
          @@ ("amenities" :> Null) @@ ("age_categories" :> Null) }

\* the parse argument of the request, decoded
Overrides ==
    { Empty,
      ("dates" :> DatesVal(<<2026, 8, 1>>, <<2026, 8, 8>>)),
      ("accommodation_groups" :> ListVal(<<IntItem(2)>>))
          @@ ("age_categories" :> MapVal(10 :> 1)),
      ("amenities" :> ListVal(<<StrItem("zwembad")>>)) }

(***************************************************************************)
(* The state: one request to CatalogSearch.get.                            *)
(***************************************************************************)
VARIABLES
    today,            \* date.today() / datetime.now()
    catalog_filters,  \* what get_catalog_filters_from_tommy returns
    original_user_query, \* the q argument of the request
    user_query,       \* the sanitized query
    request_parse,    \* the decoded parse argument of the request
    pc,               \* where the request is
    residual,         \* the text the rule stage returns
    rule_parse,       \* the filter object the rule stage returns
    parse,            \* the filter object being assembled
    parse_ai,         \* what ParserAI.parse returned
    ai_calls,         \* the texts ParserAI.parse was called with
    ai_failed,        \* the call to the model raised
    raised,           \* the exception that left the handler
    results,          \* the results of the response
    avail_calls,      \* the calls of TommyClient.get_availability
    availability,     \* the list the availability search returned
    extracted,        \* what the extractors of ParserRules.parse returned
    store,            \* the redis store: key -> value and seconds to live
    req,              \* the calls of the cached _parse_user_query in flight
    func_calls,       \* the keys the wrapped function was invoked for
    passes            \* how often time has passed

vars == <<today, catalog_filters, original_user_query, user_query,
          request_parse, pc, residual,
          rule_parse, parse, parse_ai, ai_calls, ai_failed, raised,
          results, avail_calls, availability, extracted,
          store, req, func_calls, passes>>

inputs == <<today, catalog_filters, original_user_query, user_query,
            request_parse>>

search == <<results, avail_calls, availability>>

memo == <<store, req, func_calls, passes>>

Init ==
    /\ today \in Todays
    /\ catalog_filters \in Catalogs
    /\ original_user_query \in RawQueries
    /\ user_query = <<>>
    /\ request_parse \in Overrides
    /\ pc = "get"
    /\ residual = <<>>
    /\ rule_parse = Empty
    /\ parse = Empty
    /\ parse_ai = Empty
    /\ ai_calls = <<>>
    /\ ai_failed = FALSE
    /\ raised = "none"
    /\ results = NoResults
    /\ avail_calls = <<>>
    /\ availability = <<>>
    /\ extracted = NoExtract
    /\ store = NoStore
    /\ req = <<>>
    /\ func_calls = <<>>
    /\ passes = 0

\* get, lines 284-299: the query is checked as it came and again once
\* sanitized, then the override is checked (the catalog id is the valid one)
CheckRequest ==
    /\ pc = "get"
    /\ IF ~validate_user_query(original_user_query)
       THEN pc' = "bad_request" /\ UNCHANGED user_query
       ELSE /\ user_query' = sanitize_user_query(original_user_query)
            /\ pc' = IF /\ validate_user_query(user_query')
                        /\ (request_parse = Empty \/ validate_user_parse(request_parse))
                     THEN "rules" ELSE "bad_request"
    /\ UNCHANGED <<today, catalog_filters, original_user_query, request_parse,
                   extracted, search, residual, rule_parse, parse, parse_ai,
                   ai_calls, ai_failed, raised>>
    /\ UNCHANGED memo

\* get, lines 302-304, and _parse_user_query, lines 248-249: the catalog is
\* fetched and the rule stage runs
RuleStage ==
    /\ pc = "rules"
    /\ LET r == ParserRules_parse(user_query, catalog_filters, today)
       IN  IF r.raised
           THEN /\ pc' = "raised"
                /\ raised' = "ValueError"
                /\ UNCHANGED <<residual, rule_parse, parse>>
           ELSE /\ pc' = "fallback"
                /\ residual' = r.text
                /\ rule_parse' = r.parse
                /\ parse' = r.parse
                /\ UNCHANGED raised
    /\ UNCHANGED <<inputs, extracted, search, parse_ai, ai_calls, ai_failed>>
    /\ UNCHANGED memo

\* lines 250-251
EarlyReturn ==
    /\ pc = "fallback"
    /\ EarlyReturnCond(catalog_filters, parse)
    /\ pc' = "parsed"
    /\ UNCHANGED <<inputs, extracted, search, residual, rule_parse, parse, parse_ai, ai_calls,
                   ai_failed, raised>>
    /\ UNCHANGED memo

\* lines 253-258, the model answers
FallbackCall ==
    /\ pc = "fallback"
    /\ ~EarlyReturnCond(catalog_filters, parse)
    /\ FallbackGuard(residual)
    /\ \E out \in AiOutputs :
          /\ parse_ai' = out
          /\ parse' = MergeAI(parse, out)
    /\ ai_calls' = Append(ai_calls, residual)
    /\ pc' = "validate"
    /\ UNCHANGED <<inputs, extracted, search, residual, rule_parse, ai_failed, raised>>
    /\ UNCHANGED memo

\* lines 254-255, the call to the model raises: nothing catches it
FallbackFails ==
    /\ pc = "fallback"
    /\ ~EarlyReturnCond(catalog_filters, parse)
    /\ FallbackGuard(residual)
    /\ ai_calls' = Append(ai_calls, residual)
    /\ ai_failed' = TRUE
    /\ pc' = "raised"
    /\ raised' = "APIError"
    /\ UNCHANGED <<inputs, extracted, search, residual, rule_parse, parse, parse_ai>>
    /\ UNCHANGED memo

\* line 253, the condition is false
FallbackSkip ==
    /\ pc = "fallback"
    /\ ~EarlyReturnCond(catalog_filters, parse)
    /\ ~FallbackGuard(residual)
    /\ pc' = "validate"
    /\ UNCHANGED <<inputs, extracted, search, residual, rule_parse, parse, parse_ai, ai_calls,
                   ai_failed, raised>>
    /\ UNCHANGED memo

\* lines 260-271
Validate ==
    /\ pc = "validate"
    /\ LET r == Validator(parse, today)
       IN  /\ parse' = r.parse
           /\ pc' = IF r.raised THEN "raised" ELSE "postpass"
           /\ raised' = IF r.raised THEN "KeyError" ELSE raised
    /\ UNCHANGED <<inputs, extracted, search, residual, rule_parse, parse_ai, ai_calls, ai_failed>>
    /\ UNCHANGED memo

\* lines 273-280
PostPassStep ==
    /\ pc = "postpass"
    /\ parse' = PostPass(parse)
    /\ pc' = "parsed"
    /\ UNCHANGED <<inputs, extracted, search, residual, rule_parse, parse_ai, ai_calls, ai_failed,
                   raised>>
    /\ UNCHANGED memo

\* get, lines 306-310
AddUserParse ==
    /\ pc = "parsed"
    /\ parse' = MergeOverride(parse, request_parse)
    /\ pc' = "merged"
    /\ UNCHANGED <<inputs, extracted, search, residual, rule_parse, parse_ai, ai_calls, ai_failed,
                   raised>>
    /\ UNCHANGED memo

\* get, lines 313-314: no search, results stays None
SearchSkip ==
    /\ pc = "merged"
    /\ ~SearchGuard(parse)
    /\ pc' = "done"
    /\ UNCHANGED <<inputs, extracted, search, residual, rule_parse, parse, parse_ai,
                   ai_calls, ai_failed, raised>>
    /\ UNCHANGED memo

\* get_catalog_results_from_tommy, lines 221-222: a required argument is
\* empty
SearchEmpty ==
    /\ pc = "merged"
    /\ SearchGuard(parse)
    /\ ~RequiredArgs(parse)
    /\ results' = ResultList(<<>>)
    /\ pc' = "done"
    /\ UNCHANGED <<inputs, extracted, avail_calls, availability, residual, rule_parse, parse, parse_ai,
                   ai_calls, ai_failed, raised>>
    /\ UNCHANGED memo

\* get_catalog_results_from_tommy, lines 223-230: get_availability is
\* called with amenities=..., a keyword its signature (client.py 55-59)
\* does not have, so the call raises TypeError before any request is sent;
\* nothing catches it
SearchCall ==
    /\ pc = "merged"
    /\ SearchGuard(parse)
    /\ RequiredArgs(parse)
    /\ avail_calls' = Append(avail_calls, AvailabilityArgs(parse))
    /\ pc' = "raised"
    /\ raised' = "TypeError"
    /\ UNCHANGED <<inputs, extracted, results, availability, residual, rule_parse, parse, parse_ai,
                   ai_calls, ai_failed>>
    /\ UNCHANGED memo

Next ==
    \/ CheckRequest
    \/ RuleStage
    \/ EarlyReturn
    \/ FallbackCall
    \/ FallbackFails
    \/ FallbackSkip
    \/ Validate
    \/ PostPassStep
    \/ AddUserParse
    \/ SearchSkip
    \/ SearchEmpty
    \/ SearchCall

Spec == Init /\ [][Next]_vars

(***************************************************************************)
(* ParserRules.parse step by step: the three extractors, each followed by  *)
(* the resolution of its tags against the catalog, then the return.        *)
(***************************************************************************)
\* the normalized texts given to ParserRules.parse
RulesLexicon ==
    { <<W("3"), W("-"), W("12"), W("jan")>>,
      <<W("14"), W("-"), W("12"), W("jul")>>,
      <<W("3"), W("jan"), W("2027"), W("-"), W("12"), W("jan")>>,
      <<W("3"), W("-"), W("12"), W("jan"), W("2027")>>,
      <<W("12"), W("jul")>>,
      <<W("12"), W("jul"), W("3"), W("days")>>,
      <<W("30"), W("feb"), W("3"), W("days")>>,
      <<W("29"), W("feb"), W("2"), W("days")>>,
      <<W("2"), W("weeks"), W("3"), W("jan")>>,
      <<W("2025"), G("-"), G("07"), G("-"), G("12")>>,
      <<W("2"), W("adults")>>,
      <<W("1"), W("adult")>>,
      <<W("0"), W("adults")>>,
      <<W("3"), W("kinderen")>>,
      <<W("huis")>>,
      <<W("camping")>> }

RECURSIVE RulesPhrases(_)
RulesPhrases(n) ==
    IF n = 0 THEN {<<>>}
    ELSE RulesPhrases(n - 1) \cup {p \o q : p \in RulesPhrases(n - 1), q \in RulesLexicon}

RulesTexts == {Strip(t) : t \in RulesPhrases(MaxPhrases)}

\* catalogs whose labels match a tag once, and twice
RulesCatalogs ==
    { ("accommodation_groups" :> Groups) @@ ("age_categories" :> Ages),
      ("accommodation_groups" :> Groups \o <<Entry(3, "Bungalow huren")>>)
          @@ ("age_categories" :> Ages \o <<Entry(12, "Kinderen 4-12")>>) }

InitRules ==
    /\ today \in Todays
    /\ catalog_filters \in RulesCatalogs
    /\ original_user_query = <<>>
    /\ user_query \in RulesTexts
    /\ request_parse = Empty
    /\ pc = "parse_dates"
    /\ residual = user_query
    /\ rule_parse = Empty
    /\ parse = Empty
    /\ parse_ai = Empty
    /\ ai_calls = <<>>
    /\ ai_failed = FALSE
    /\ raised = "none"
    /\ results = NoResults
    /\ avail_calls = <<>>
    /\ availability = <<>>
    /\ extracted = NoExtract
    /\ store = NoStore
    /\ req = <<>>
    /\ func_calls = <<>>
    /\ passes = 0

\* rules.py, lines 20-23
ParseDates ==
    /\ pc = "parse_dates"
    /\ LET d == ParserDates_parse(residual, today)
       IN  IF d.raised
           THEN /\ pc' = "raised"
                /\ raised' = "ValueError"
                /\ UNCHANGED <<residual, rule_parse, extracted>>
           ELSE /\ pc' = "parse_groups"
                /\ extracted' = [extracted EXCEPT !.dates = d.dates]
                /\ residual' = d.text
                /\ rule_parse' = WithDates(Empty, d.dates)
                /\ UNCHANGED raised
    /\ UNCHANGED <<inputs, search, parse, parse_ai, ai_calls, ai_failed>>
    /\ UNCHANGED memo

\* rules.py, lines 25-34
ParseGroups ==
    /\ pc = "parse_groups"
    /\ LET g == ParserAccommodationGroups_parse(residual)
       IN  /\ extracted' = [extracted EXCEPT !.tags = g.tags]
           /\ residual' = g.text
           /\ rule_parse' = WithGroups(rule_parse,
                                ResolveGroups(g.tags,
                                    Get(catalog_filters, "accommodation_groups")))
    /\ pc' = "parse_ages"
    /\ UNCHANGED <<inputs, search, parse, parse_ai, ai_calls, ai_failed, raised>>
    /\ UNCHANGED memo

\* rules.py, lines 36-46
ParseAges ==
    /\ pc = "parse_ages"
    /\ LET a == ParserAgeCategories_parse(residual)
       IN  /\ extracted' = [extracted EXCEPT !.counts = a.counts]
           /\ residual' = a.text
           /\ rule_parse' = WithAges(rule_parse,
                                ResolveAges(AgeTags, a.counts,
                                    Get(catalog_filters, "age_categories"), NoAges))
    /\ pc' = "parse_return"
    /\ UNCHANGED <<inputs, search, parse, parse_ai, ai_calls, ai_failed, raised>>
    /\ UNCHANGED memo

\* rules.py, line 48
ParseReturn ==
    /\ pc = "parse_return"
    /\ residual' = Strip(residual)
    /\ pc' = "returned"
    /\ UNCHANGED <<inputs, search, extracted, rule_parse, parse, parse_ai,
                   ai_calls, ai_failed, raised>>
    /\ UNCHANGED memo

NextRules ==
    \/ ParseDates
    \/ ParseGroups
    \/ ParseAges
    \/ ParseReturn

SpecRules == InitRules /\ [][NextRules]_vars

(***************************************************************************)
(* The ranking of CatalogSearch.get, lines 322-335, on the lists the       *)
(* availability search can return: the step is taken on its own, from the  *)
(* state in which get holds a list of results.                             *)
(***************************************************************************)
\* get_accommodations_from_tommy: id -> name; id 5 is not in the table
Accommodations ==
    (1 :> "Huisje aan Zee") @@ (2 :> "Café Zee") @@ (3 :> "Boshuis") @@ (4 :> "Søhus")

ResultIds == 1..5

\* a slot of the provider: its id, and no name
Slot(id) == [id |-> id, name |-> ""]

\* the lists of distinct slots of up to MaxResults results
RankLists ==
    {l \in UNION {[1..n -> {Slot(id) : id \in ResultIds}] : n \in 0..MaxResults} :
        \A i, j \in DOMAIN l : i # j => l[i] # l[j]}

\* the q argument as it came
RankQueries ==
    { <<G("zee"), W("huis")>>,
      <<G("Zee"), W("huis")>>,
      <<G("cafe"), W("zee")>>,
      <<G("café"), W("aan")>>,
      <<G("zee"), G("!"), W("bos")>>,
      <<G("zee"), W("zee"), W("bos")>>,
      <<G("shus"), W("huis")>> }

InitRank ==
    /\ today = <<2025, 6, 15>>
    /\ catalog_filters = CHOOSE c \in Catalogs : TRUE
    /\ original_user_query \in RankQueries
    /\ user_query = sanitize_user_query(original_user_query)
    /\ request_parse = Empty
    /\ pc = "results"
    /\ residual = <<>>
    /\ rule_parse = Empty
    /\ parse = Empty
    /\ parse_ai = Empty
    /\ ai_calls = <<>>
    /\ ai_failed = FALSE
    /\ raised = "none"
    /\ availability \in RankLists
    /\ results = ResultList(availability)
    /\ avail_calls = <<>>
    /\ extracted = NoExtract
    /\ store = NoStore
    /\ req = <<>>
    /\ func_calls = <<>>
    /\ passes = 0

\* line 322, the list is empty: nothing to rank
RankSkip ==
    /\ pc = "results"
    /\ results.v = <<>>
    /\ pc' = "done"
    /\ UNCHANGED <<inputs, extracted, search, residual, rule_parse, parse, parse_ai,
                   ai_calls, ai_failed, raised>>
    /\ UNCHANGED memo

\* lines 322-325
UpdateResults ==
    /\ pc = "results"
    /\ results.v # <<>>
    /\ results' = ResultList([i \in DOMAIN results.v |->
                                 UpdateResult(results.v[i], Accommodations)])
    /\ pc' = "sort"
    /\ UNCHANGED <<inputs, extracted, avail_calls, availability, residual, rule_parse,
                   parse, parse_ai, ai_calls, ai_failed, raised>>
    /\ UNCHANGED memo

\* lines 328-335
SortResults ==
    /\ pc = "sort"
    /\ results' = ResultList(SortByScore(results.v, Split(original_user_query)))
    /\ pc' = "ranked"
    /\ UNCHANGED <<inputs, extracted, avail_calls, availability, residual, rule_parse,
                   parse, parse_ai, ai_calls, ai_failed, raised>>
    /\ UNCHANGED memo

NextRank ==
    \/ RankSkip
    \/ UpdateResults
    \/ SortResults

SpecRank == InitRank /\ [][NextRank]_vars

(***************************************************************************)
(* Two requests in flight call the cached _parse_user_query on one redis   *)
(* store; each has its query and the answer the model gives to its call.   *)
(* The steps of the wrapper interleave; time passes between them.          *)
(***************************************************************************)
Requests == {1, 2}

CacheQueries == {<<G("zwembad")>>, <<G("huis")>>}

CacheCatalog == CHOOSE c \in Catalogs : Get(c, "amenities") # <<>>

\* a call before its first step
NewCall(q, answer) == [pc |-> "start", q |-> q, answer |-> answer, ret |-> Empty]

InitCache ==
    /\ today = <<2025, 6, 15>>
    /\ catalog_filters = CacheCatalog
    /\ original_user_query = <<>>
    /\ user_query = <<>>
    /\ request_parse = Empty
    /\ pc = "parse"
    /\ residual = <<>>
    /\ rule_parse = Empty
    /\ parse = Empty
    /\ parse_ai = Empty
    /\ ai_calls = <<>>
    /\ ai_failed = FALSE
    /\ raised = "none"
    /\ results = NoResults
    /\ avail_calls = <<>>
    /\ availability = <<>>
    /\ extracted = NoExtract
    /\ store = NoStore
    /\ req \in [Requests -> {NewCall(q, a) : q \in CacheQueries, a \in AiOutputs}]
    /\ func_calls = <<>>
    /\ passes = 0

request == <<inputs, pc, residual, rule_parse, parse, parse_ai, ai_calls, ai_failed,
             raised, search, extracted>>

\* cache.py, lines 253-254: the value of the key is returned if it is truthy
CacheLookup(r) ==
    /\ req[r].pc = "start"
    /\ LET cached == RedisCache_get(store, RedisKey(req[r].q))
       IN  req' = [req EXCEPT ![r] =
                     IF CachedTruthy(cached)
                     THEN [@ EXCEPT !.pc = "done", !.ret = cached.value]
                     ELSE [@ EXCEPT !.pc = "miss"]]
    /\ UNCHANGED <<request, store, func_calls, passes>>

\* cache.py, line 256: the wrapped function runs; what it raises leaves the
\* wrapper
CacheCompute(r) ==
    /\ req[r].pc = "miss"
    /\ LET result == ParseUserQuery(req[r].q, catalog_filters, today, req[r].answer)
       IN  req' = [req EXCEPT ![r] =
                     IF result.raised
                     THEN [@ EXCEPT !.pc = "raised"]
                     ELSE [@ EXCEPT !.pc = "computed", !.ret = result.value]]
    /\ func_calls' = Append(func_calls, RedisKey(req[r].q))
    /\ UNCHANGED <<request, store, passes>>

\* cache.py, lines 258-260: the result is stored and returned
CacheStore(r) ==
    /\ req[r].pc = "computed"
    /\ store' = RedisCache_set(store, RedisKey(req[r].q), req[r].ret)
    /\ req' = [req EXCEPT ![r].pc = "done"]
    /\ UNCHANGED <<request, func_calls, passes>>

\* redis: the entries lose dt seconds of their time to live
Pass(dt) ==
    /\ passes < MaxPasses
    /\ store # NoStore
    /\ store' = Expire(store, dt)
    /\ passes' = passes + 1
    /\ UNCHANGED <<request, req, func_calls>>

NextCache ==
    \/ \E r \in Requests : CacheLookup(r)
    \/ \E r \in Requests : CacheCompute(r)
    \/ \E r \in Requests : CacheStore(r)
    \/ \E dt \in {EmptyTTL, ParseTTL} : Pass(dt)

SpecCache == InitCache /\ [][NextCache]_vars

(***************************************************************************)
(* The claims.                                                             *)
(***************************************************************************)
\* the request is past the fallback step of _parse_user_query
PastFallback ==
    \/ pc \in {"validate", "postpass", "parsed", "merged", "done"}
    \/ pc = "raised" /\ raised # "ValueError"

\* the object holds a dates pair (not None)
HasDates(p) == "dates" \in DOMAIN p /\ p["dates"] # Null

\* C1: in the fallback merge every key the rule stage put into the filter
\* object keeps the rule-derived value, and a key the rule stage did not set
\* holds the value of the model's output.
C1_MergeKeepsRuleKeys ==
    (pc = "validate" /\ ai_calls # <<>>) =>
        /\ \A k \in DOMAIN rule_parse : k \in DOMAIN parse /\ parse[k] = rule_parse[k]
        /\ \A k \in DOMAIN parse \ DOMAIN rule_parse :
              k \in DOMAIN parse_ai /\ parse[k] = parse_ai[k]
        /\ DOMAIN parse = DOMAIN rule_parse \cup DOMAIN parse_ai

\* the model answered a key the rule stage had set, with another value, and
\* a key the rule stage had not set
C1_Witness ==
    /\ pc = "validate" /\ ai_calls # <<>>
    /\ \E k \in DOMAIN rule_parse \cap DOMAIN parse_ai : parse_ai[k] # rule_parse[k]
    /\ DOMAIN parse_ai \ DOMAIN rule_parse # {}

\* C2: a dates pair with start = end that is not before today passes the
\* Validator: the pair is kept and no error is set.
C2_SameDayPassesValidator ==
    [][(/\ pc = "validate"
        /\ HasDates(parse)
        /\ parse["dates"].v.start = parse["dates"].v.end
        /\ ~DateLT(parse["dates"].v.start, today))
       => (/\ pc' = "postpass"
           /\ "dates" \in DOMAIN parse'
           /\ parse'["dates"] = parse["dates"]
           /\ "error" \notin DOMAIN parse')]_vars

\* C3: on a dates pair whose start is before today the Validator completes,
\* sets error = DATES_PAST, removes dates and leaves every other key as it was.
C3_PastStartDropsDatesOnly ==
    [][(/\ pc = "validate"
        /\ HasDates(parse)
        /\ DateLT(parse["dates"].v.start, today))
       => (/\ pc' = "postpass"
           /\ "error" \in DOMAIN parse'
           /\ parse'["error"] = StrVal("DATES_PAST")
           /\ "dates" \notin DOMAIN parse'
           /\ \A k \in DOMAIN parse \ {"dates", "error"} :
                 k \in DOMAIN parse' /\ parse'[k] = parse[k])]_vars

\* C4 as claimed: for every key in both the parse override and the
\* pipeline-derived object, the response carries the override's value.
C4_OverrideWins ==
    [][(pc = "parsed" /\ pc' = "merged")
       => \A k \in DOMAIN request_parse \cap DOMAIN parse :
             parse'[k] = request_parse[k]]_vars

\* C4 as amended: for every key of the pipeline-derived object the response
\* carries the pipeline's value; the override only fills the keys the
\* pipeline-derived object does not have.
C4_PipelineWins ==
    [][(pc = "parsed" /\ pc' = "merged")
       => (/\ \A k \in DOMAIN parse : k \in DOMAIN parse' /\ parse'[k] = parse[k]
           /\ \A k \in DOMAIN request_parse \ DOMAIN parse :
                 k \in DOMAIN parse' /\ parse'[k] = request_parse[k]
           /\ DOMAIN parse' = DOMAIN parse \cup DOMAIN request_parse)]_vars

\* a merged response in which the override and the pipeline had a key in
\* common, with different values
C4_Witness ==
    /\ pc = "merged"
    /\ \E k \in DOMAIN request_parse \cap DOMAIN parse : parse[k] # request_parse[k]

\* C5: in the filter object of the response, after validation and after the
\* merge of the override, an error key implies that there is no dates key.
C5_ErrorImpliesNoDates ==
    pc = "merged" => ("error" \in DOMAIN parse => "dates" \notin DOMAIN parse)

\* C6: the fallback model is not invoked when the residual text is empty or
\* has no alphanumeric character.
C6_NoCallWithoutAlnum ==
    (PastFallback /\ (residual = <<>> \/ ~REGEX_ALPHANUMERIC(residual)))
        => ai_calls = <<>>

\* a residual text of punctuation, long enough to be sent, was not sent
C6_Witness ==
    /\ pc = "validate"
    /\ residual # <<>> /\ ~REGEX_ALPHANUMERIC(residual)
    /\ TextLen(residual) >= MinResidualLen
    /\ ai_calls = <<>>

\* none of the skip conditions of the fallback stage holds
C7_NoSkipCondition ==
    /\ residual # <<>>
    /\ REGEX_ALPHANUMERIC(residual)
    /\ ~(/\ Get(catalog_filters, "amenities") = <<>>
         /\ {"dates", "accommodation_groups", "age_categories"} \subseteq DOMAIN rule_parse)

\* C7 as claimed: when none of the skip conditions holds, the model adapter
\* is invoked with the residual text, whatever its length.
C7_CallWheneverNotSkipped ==
    (PastFallback /\ C7_NoSkipCondition) => ai_calls = <<residual>>

\* C7 as amended: when none of the skip conditions holds and the residual
\* text has at least 5 characters, the model adapter is invoked with the
\* residual text.
C7_CallWhenLongEnough ==
    (PastFallback /\ C7_NoSkipCondition /\ TextLen(residual) >= 5)
        => ai_calls = <<residual>>

\* the model was called with all three primary keys set by the rules, for a
\* catalog that has amenities
C7_Witness ==
    /\ PastFallback /\ C7_NoSkipCondition
    /\ Cardinality(DOMAIN rule_parse) = 3
    /\ ai_calls = <<residual>>

\* a list or a mapping without entries
IsEmptyVal(val) ==
    \/ val.t = "list" /\ val.v = <<>>
    \/ val.t = "map" /\ DOMAIN val.v = {}

\* C8 as claimed: in the filter object the pipeline returns no key maps to
\* null, and no key maps to an empty value.
C8_NoNullNoEmpty ==
    pc = "parsed" => \A k \in DOMAIN parse : parse[k] # Null /\ ~IsEmptyVal(parse[k])

\* C8 as amended: in the filter object the pipeline returns, and in the one
\* of the response, no key maps to null (an empty list of the model is kept).
C8_NoNull ==
    pc \in {"parsed", "merged"} => \A k \in DOMAIN parse : parse[k] # Null

\* the model answered null for a key the rule stage had not set
C8_Witness ==
    /\ pc = "parsed" /\ ai_calls # <<>>
    /\ \E k \in DOMAIN parse_ai \ DOMAIN rule_parse : parse_ai[k] = Null

\* C9: the Date Extractor never raises, whatever the normalized text.
C9_DateExtractorNeverRaises ==
    raised # "ValueError"

\* C10: when the call to the model fails the pipeline does not raise; it
\* returns the rule-only filter object, validated.
C10_ModelFailureDegrades ==
    ai_failed =>
        /\ raised = "none"
        /\ pc = "parsed" => parse = PostPass(Validator(rule_parse, today).parse)

\* the object holds a non-empty age_categories mapping
HasAges(p) ==
    /\ "age_categories" \in DOMAIN p
    /\ p["age_categories"].t = "map"
    /\ DOMAIN p["age_categories"].v # {}

\* C11: when the availability search is attempted with non-empty start, end
\* and age_categories, a failure of the call yields an empty result list and
\* nothing is raised to the caller.
C11_AvailabilityFailureDegrades ==
    [][(/\ pc = "merged"
        /\ "error" \notin DOMAIN parse
        /\ HasDates(parse)
        /\ HasAges(parse))
       => (raised' = "none" /\ results'.t = "list")]_vars

\* C18: TommyClient.get_availability is called only when the final filter
\* object has no error, has dates and has non-empty age_categories; with a
\* required argument empty the step ends with an empty list, or with no
\* results, and without the call.
C18_CallOnlyWithRequiredArgs ==
    [][/\ (avail_calls' # avail_calls) =>
              (/\ pc = "merged"
               /\ "error" \notin DOMAIN parse
               /\ HasDates(parse)
               /\ HasAges(parse))
       /\ (pc = "merged" /\ ~(HasDates(parse) /\ HasAges(parse))) =>
              (/\ pc' = "done"
               /\ avail_calls' = avail_calls
               /\ results' \in {NoResults, ResultList(<<>>)})]_vars

\* a response with dates and without age_categories: the empty list, and no
\* call
C18_Witness ==
    /\ pc = "done"
    /\ HasDates(parse) /\ ~HasAges(parse)
    /\ results = ResultList(<<>>)
    /\ avail_calls = <<>>

\* ParserDates.parse has returned in ParserRules.parse
DatesReturned == pc \in {"parse_groups", "parse_ages", "parse_return", "returned"}

\* the fragments of the range expression of text t
RangeStartText(t) == SubSeq(t, RANGE_PATTERN(t).from, RANGE_PATTERN(t).mid)
RangeEndText(t) == SubSeq(t, RANGE_PATTERN(t).to0, RANGE_PATTERN(t).to)

\* the start fragment read in the current year, in the month of the end
TentativeStart(t, now) ==
    parse_date(RangeStartText(t), now[1],
               parse_date(RangeEndText(t), now[1], 0, now)[2], now)

\* t holds a range expression whose end fragment has no 4-digit year and
\* whose two fragments are dates
YearlessRange(t, now) ==
    /\ RANGE_PATTERN(t).from # 0
    /\ ~HasExplicitYear(RangeEndText(t))
    /\ parse_date(RangeEndText(t), now[1], 0, now) # None
    /\ TentativeStart(t, now) # None

\* both dates are in the current year, or in the next one when the
\* tentative start is before now
SameRolledYear(dates, t, now) ==
    LET Y == IF DateLE(TentativeStart(t, now), now) THEN now[1] + 1 ELSE now[1]
    IN  dates # NoDates /\ dates.start[1] = Y /\ dates.end[1] = Y

\* C12 as claimed: for a range expression whose end fragment has no explicit
\* 4-digit year, start and end are emitted with the same year Y, the current
\* year when the tentative start is not before now and the next year
\* otherwise.
C12_RangeSameYear ==
    (DatesReturned /\ YearlessRange(user_query, today))
        => SameRolledYear(extracted.dates, user_query, today)

\* C12 as amended: the same, for a start fragment that has no 4-digit year
\* of its own.
C12_RangeSameYearNoStartYear ==
    (/\ DatesReturned
     /\ YearlessRange(user_query, today)
     /\ ~HasExplicitYear(RangeStartText(user_query)))
        => SameRolledYear(extracted.dates, user_query, today)

\* a range without years whose tentative start is before now: rolled
C12_Witness ==
    /\ DatesReturned
    /\ YearlessRange(user_query, today)
    /\ ~HasExplicitYear(RangeStartText(user_query))
    /\ DateLE(TentativeStart(user_query, today), today)
    /\ extracted.dates # NoDates
    /\ extracted.dates.start[1] = today[1] + 1

\* an ISO date yyyy-mm-dd starts at atom i of t
IsoAt(t, i) == i + 4 <= Len(t) /\ MatchIso(Strip(SubSeq(t, i, i + 4)))

ContainsIso(t) == \E i \in 1..Len(t) : IsoAt(t, i)

\* the date written at atom i
IsoDate(t, i) == <<NumVal[t[i].s], NumVal[t[i + 2].s], NumVal[t[i + 4].s]>>

\* C13: for a text that contains an ISO date, alone or among other words,
\* ParserDates.parse returns exactly that date as start and end, and the
\* text it returns no longer contains the ISO date.
C13_IsoDateExtracted ==
    (DatesReturned /\ ContainsIso(user_query)) =>
        /\ \E i \in 1..Len(user_query) :
              /\ IsoAt(user_query, i)
              /\ extracted.dates = [start |-> IsoDate(user_query, i),
                                    end |-> IsoDate(user_query, i)]
        /\ ~ContainsIso(residual)

\* ParserAgeCategories.parse has returned in ParserRules.parse
AgesReturned == pc \in {"parse_return", "returned"}

\* "<integer> <category-word>" of the tag at atoms j, j + 1 of t
IsAgeMatch(t, j, tag) ==
    /\ j + 1 <= Len(t)
    /\ t[j].s \in DOMAIN NumVal /\ Len(t[j].s) <= 2
    /\ t[j + 1].sp >= 1
    /\ t[j + 1].s \in AgeWords[tag]

RECURSIVE CountFrom(_, _, _)
\* the counts of the matches of the tag from atom j on, added left to right
CountFrom(t, j, tag) ==
    IF j > Len(t) THEN 0
    ELSE (IF IsAgeMatch(t, j, tag) THEN NumVal[t[j].s] ELSE 0)
         + CountFrom(t, j + 1, tag)

\* C14: the Age-Category Extractor returns for each canonical tag the sum of
\* the counts of all its matches in the text it was given (residual, which
\* it returns unchanged), and no tag without a match.
C14_AgeCountsSummed ==
    AgesReturned =>
        /\ DOMAIN extracted.counts =
              {AgeTags[n] : n \in {k \in DOMAIN AgeTags :
                  \E j \in 1..Len(residual) : IsAgeMatch(residual, j, AgeTags[k])}}
        /\ \A tag \in DOMAIN extracted.counts :
              extracted.counts[tag] = CountFrom(residual, 1, tag)

\* two matches of one tag with different counts, and a tag without a match
C14_Witness ==
    /\ AgesReturned
    /\ \E j, k \in 1..Len(residual) :
          /\ j < k
          /\ IsAgeMatch(residual, j, "volwassenen")
          /\ IsAgeMatch(residual, k, "volwassenen")
          /\ residual[j].s # residual[k].s
    /\ "volwassenen" \in DOMAIN extracted.counts
    /\ "kinderen" \notin DOMAIN extracted.counts

\* the ids of the entries whose label contains a tag of the set that is in
\* the label of exactly one entry
UniqueMatchIds(tags, entries) ==
    {entries[n].id : n \in {k \in DOMAIN entries :
        \E tag \in tags :
            /\ tag \in LabelTags[entries[k].label]
            /\ Cardinality({j \in DOMAIN entries :
                               tag \in LabelTags[entries[j].label]}) = 1}}

\* the ids the filter object holds under accommodation_groups
GroupIds(p) ==
    IF "accommodation_groups" \in DOMAIN p
    THEN {p["accommodation_groups"].v[n].v : n \in DOMAIN p["accommodation_groups"].v}
    ELSE {}

\* the ids the filter object holds under age_categories
AgeIds(p) ==
    IF "age_categories" \in DOMAIN p THEN DOMAIN p["age_categories"].v ELSE {}

\* C15: in ParserRules.parse an extracted tag contributes a catalog id to the
\* filter object only if it is in the label of exactly one entry of its
\* category; a tag in no label, or in several, contributes nothing.
C15_OnlyUniqueLabelMatches ==
    pc = "returned" =>
        /\ GroupIds(rule_parse) \subseteq
              UniqueMatchIds({extracted.tags[n] : n \in DOMAIN extracted.tags},
                             Get(catalog_filters, "accommodation_groups"))
        /\ AgeIds(rule_parse) \subseteq
              UniqueMatchIds(DOMAIN extracted.counts,
                             Get(catalog_filters, "age_categories"))

\* the text is shorter than 4 or longer than 100 characters
BadLength(text) == TextLen(text) < 4 \/ TextLen(text) > 100

\* C17: a query that fails the length check, as it came or once sanitized
\* (user_query, empty until then), is rejected before any step of the
\* pipeline: the request goes from get to bad_request, with no rule
\* extraction, no call of the model and no availability search.
C17_BadLengthRejectedFirst ==
    (BadLength(original_user_query) \/ BadLength(user_query))
    => /\ pc \in {"get", "bad_request"}
       /\ residual = <<>> /\ rule_parse = Empty /\ extracted = NoExtract
       /\ ai_calls = <<>> /\ avail_calls = <<>> /\ results = NoResults

\* a query long enough as it came and too short once sanitized, rejected
C17_Witness ==
    /\ pc = "bad_request"
    /\ ~BadLength(original_user_query)
    /\ BadLength(user_query)
    /\ user_query # <<>>


\* Either date of the pair is before today.
PastPair(dates, now) == DateLT(dates.start, now) \/ DateLT(dates.end, now)

\* C20: the two semantic checks are exclusive and ordered.  On every dates
\* pair the Validator ends without raising; a pair with a date before today
\* ends with error = DATES_PAST and no dates, whatever its order; a pair with
\* no date before today and start >= end ends with error = DATES_ORDER and no
\* dates.
C20_ChecksExclusiveAndOrdered ==
    [][(pc = "validate" /\ HasDates(parse))
       => (/\ pc' = "postpass"
           /\ PastPair(parse["dates"].v, today)
                => (/\ "error" \in DOMAIN parse'
                    /\ parse'["error"] = StrVal("DATES_PAST")
                    /\ "dates" \notin DOMAIN parse')
           /\ (/\ ~PastPair(parse["dates"].v, today)
               /\ DateLE(parse["dates"].v.end, parse["dates"].v.start))
                => (/\ "error" \in DOMAIN parse'
                    /\ parse'["error"] = StrVal("DATES_ORDER")
                    /\ "dates" \notin DOMAIN parse'))]_vars


\* C19: every filter object the parse stage returns (pc = "parsed", by the
\* early return or after the Validator and the post-pass) that has a dates
\* key has passed the semantic checks: neither date is before today and start
\* is not after end.
C19_ReturnedDatesValidated ==
    (pc = "parsed" /\ HasDates(parse))
        => (/\ ~PastPair(parse["dates"].v, today)
            /\ DateLE(parse["dates"].v.start, parse["dates"].v.end))


\* the place of the result with this id in the list of the provider
ProviderPlace(id) == CHOOSE k \in DOMAIN availability : availability[k].id = id

\* the score of the i-th ranked result
RankedScore(i) == Score(results.v[i], Split(original_user_query))

\* C16: the ranked list holds the results of the provider's list, each once,
\* in non-increasing order of score, and two results of equal score stand in
\* the order they had in the provider's list.
C16_RankedByScoreStable ==
    pc = "ranked"
        => (/\ Len(results.v) = Len(availability)
            /\ {results.v[i].id : i \in DOMAIN results.v}
                 = {availability[i].id : i \in DOMAIN availability}
            /\ \A i, j \in DOMAIN results.v :
                  i < j => (/\ RankedScore(i) >= RankedScore(j)
                            /\ RankedScore(i) = RankedScore(j)
                                 => ProviderPlace(results.v[i].id)
                                      < ProviderPlace(results.v[j].id)))

\* C16 witness: a ranked list in which a result has overtaken two results of
\* equal score, which kept their order.
C16_Witness ==
    /\ pc = "ranked"
    /\ \E i, j, k \in DOMAIN results.v :
          /\ i < j /\ j < k
          /\ RankedScore(i) > RankedScore(j)
          /\ RankedScore(j) = RankedScore(k)
          /\ ProviderPlace(results.v[j].id) < ProviderPlace(results.v[k].id)
          /\ ProviderPlace(results.v[k].id) < ProviderPlace(results.v[i].id)


\* the first date+duration expression of the text the Date Extractor got:
\* where it starts, and whether the date stands in front of the duration
DurationAt(t) == Min(DurationStarts(t))
DateFirst(t) == DateDurationAt(t, DurationAt(t))

\* its "<day> <month>" fragment, in the year of today
DurationDay(t) == IF DateFirst(t) THEN t[DurationAt(t)].s ELSE t[DurationAt(t) + 2].s
DurationMonth(t) == IF DateFirst(t) THEN t[DurationAt(t) + 1].s ELSE t[DurationAt(t) + 3].s
DurationStart(t, now) == <<now[1], MONTHS[DurationMonth(t)], NumVal[DurationDay(t)]>>

\* its integer and its unit word
DurationAmount(t) == IF DateFirst(t) THEN NumVal[t[DurationAt(t) + 2].s] ELSE NumVal[t[DurationAt(t)].s]
DurationUnit(t) == IF DateFirst(t) THEN t[DurationAt(t) + 3].s ELSE t[DurationAt(t) + 1].s
DurationDays(t) ==
    IF DurationUnit(t) \in {"week", "weeks", "wk", "wks"}
    THEN 7 * DurationAmount(t) ELSE DurationAmount(t)

\* the text has no range expression, and its first date+duration expression
\* is a calendar date of this year with a duration in days or weeks of at
\* least one day
DurationCase(t, now) ==
    /\ RANGE_PATTERN(t).from = 0
    /\ DurationStarts(t) # {}
    /\ DurationMonth(t) \in DOMAIN MONTHS
    /\ DurationUnit(t) \in UnitSet
    /\ DurationAmount(t) >= 1
    /\ ValidDate(DurationStart(t, now))

\* the start the claim states: a past start one year on, a later one as it is
ClaimedStart(start, now, got) ==
    IF DateLT(start, now) THEN got = <<start[1] + 1, start[2], start[3]>>
    ELSE IF DateLT(now, start) THEN got = start
    ELSE got \in {start, <<start[1] + 1, start[2], start[3]>>}

\* C22: on a date+duration expression, in either order, the Date Extractor
\* returns the start, rolled one year on when it is in the past, and
\* end = start + (duration_days - 1) days, with duration_days the integer for
\* days and seven times the integer for weeks, and returns the text without
\* the matched expression.
C22_DurationRolledAndAdded ==
    [][(pc = "parse_dates" /\ DurationCase(residual, today))
       => (/\ pc' = "parse_groups"
           /\ ClaimedStart(DurationStart(residual, today), today, extracted'.dates.start)
           /\ extracted'.dates.end
                = AddDays(extracted'.dates.start, DurationDays(residual) - 1)
           /\ residual' = RemoveMatch(residual, DurationAt(residual),
                                      DurationAt(residual) + 3, ""))]_vars


\* the text has neither a range nor a date+duration expression
NoRangeNoDuration(t) == RANGE_PATTERN(t).from = 0 /\ DurationStarts(t) = {}

\* C23: when the text has neither a range nor a date+duration expression and
\* the whole of it parses as one date, the Date Extractor returns that date
\* as start and as end and an empty text; when it returns no date, on any
\* text, the text it returns is the text it received.
C23_SingleDateOrUnchanged ==
    [][pc = "parse_dates"
       => (/\ (NoRangeNoDuration(residual) /\ parse_date(residual, 0, 0, today) # None)
                => (/\ pc' = "parse_groups"
                    /\ extracted'.dates.start = parse_date(residual, 0, 0, today)
                    /\ extracted'.dates.end = extracted'.dates.start
                    /\ residual' = <<>>)
           /\ (NoRangeNoDuration(residual) /\ parse_date(residual, 0, 0, today) = None)
                => (pc' = "parse_groups" /\ extracted'.dates = NoDates)
           /\ (pc' = "parse_groups" /\ extracted'.dates = NoDates)
                => residual' = residual)]_vars

\* C23 witness: the whole text was one date, and came back as a one-day range
\* with an empty text.
C23_Witness ==
    /\ pc = "parse_groups"
    /\ user_query # <<>>
    /\ NoRangeNoDuration(user_query)
    /\ extracted.dates.start # None
    /\ extracted.dates.start = extracted.dates.end
    /\ residual = <<>>


\* C24: the text the rule stage returns holds no "<integer> <category-word>"
\* span of any age category: the Age-Category Extractor has cut every match
\* out of it.
C24_AgePhrasesRemoved ==
    pc = "returned"
        => \A tag \in DOMAIN AgeWords :
              \A j \in 1..Len(residual) : ~IsAgeMatch(residual, j, tag)

\* C25: every count of the age_categories mapping the rule stage returns is
\* at least one.
C25_AgeCountsPositive ==
    (pc = "returned" /\ HasAges(rule_parse))
        => \A id \in DOMAIN rule_parse["age_categories"].v :
              rule_parse["age_categories"].v[id] >= 1


\* the filter keys of p pass the schema of the filter object
SchemaOk(p) == validate_user_parse([k \in DOMAIN p \ {"error"} |-> p[k]])

\* C21: a successful response (pc = "done") of a request whose filter object
\* was assembled with the answer of the model carries a filter object that
\* passes the schema: dates a pair of dates, accommodation_groups and
\* amenities lists of integers, age_categories a mapping.
C21_ModelOutputSchemaChecked ==
    (pc = "done" /\ ai_calls # <<>>) => SchemaOk(parse)


\* what the call returns when it runs alone: the wrapped function on its
\* query with the answer the model gives to this call
Alone(r) == ParseUserQuery(req[r].q, catalog_filters, today, req[r].answer).value

\* C26: the filter object a call returns is the one it returns when it runs
\* alone, whatever the other call in flight did and whatever the model
\* answered to the other call.
C26_NoSharedState ==
    \A r \in Requests : req[r].pc = "done" => req[r].ret = Alone(r)

\* C27: a call that looks its key up while the store holds an entry for it
\* returns the stored value, empty or not, and the wrapped function is not
\* invoked.
C27_StoredResultReturned ==
    [][\A r \in Requests :
          (/\ req[r].pc = "start"
           /\ req'[r].pc # "start"
           /\ RedisKey(req[r].q) \in DOMAIN store)
          => (/\ req'[r].pc = "done"
              /\ req'[r].ret = store[RedisKey(req[r].q)].value
              /\ func_calls' = func_calls)]_vars

====
